---- MODULE Spec2Model ----
(***************************************************************************)
(* Model of codex-runner-service: app/main.py (the run coordinator: the    *)
(* asyncio lock, the periodic loop, the manual trigger, start-up and       *)
(* shut-down) and app/slack_sync.py (one synchronisation pass, run_sync,   *)
(* executed in a worker thread by asyncio.to_thread).                      *)
(*                                                                         *)
(* The event loop is single threaded: every coroutine runs from one await  *)
(* to the next without interruption, so each event-loop action below is    *)
(* one such stretch.  run_sync runs in a worker thread; its steps (load,   *)
(* each page request, each message of the loop, save) interleave freely    *)
(* with the event loop and with other worker threads.                      *)
(***************************************************************************)
EXTENDS Integers, Sequences, FiniteSets

\* ---- bounds of the model ------------------------------------------------
\* Messages ever posted to the channel.
MaxMsgs == 2
\* Executions of run_sync ever started.
MaxPasses == 3
\* sync_now requests that are past the busy check at the same time.
MaxReqs == 1
\* Messages a backend of any behaviour holds, and returns over its pages.
MaxFetched == 3
\* Tokens of a message text given to the formatter.
MaxTextLen == 3

\* ---- program constants ----------------------------------------------------
\* "limit": 200 of the conversations.history request.
PageLimit == 200
\* f"{processed_ts:.6f}": digits after the decimal point of the saved cursor.
FracDigits == 6
\* [:80]: the characters of a title.
TitleLimit == 80

VARIABLES
    channel,        \* chat backend: the messages of the channel, oldest first
    issues,         \* tracker backend: issues[i] = issues created for channel[i]
    stateFile,      \* content of settings.state_file
    locked,         \* _loop_lock._locked
    waiters,        \* _loop_lock._waiters, as the waiting tasks in order
    woken,          \* the first waiter's future has its result, task not yet run
    pollPc,         \* _polling_task and the position of _poll_loop
    req,            \* sync_now handlers that are past the busy check
    pass,           \* executions of run_sync, by the order they were started
    started,        \* executions of run_sync started so far
    lastStats,      \* _last_stats
    lastError,      \* _last_error
    lastRunEpoch,   \* _last_run_epoch
    resp,           \* status code of the sync_now response the step sent, 0 for none
    lifespan,       \* the server's lifespan: "startup", "serving", "shutdown"
    aborted,        \* history: the messages the latest ended pass had created
                    \* issues for when _create_issue raised ({} if it ended otherwise)
    draft           \* what the latest call of _format_issue came to

vars == <<channel, issues, stateFile, locked, waiters, woken, pollPc, req, pass,
          started, lastStats, lastError, lastRunEpoch, resp, lifespan, aborted,
          draft>>

Passes == 1..MaxPasses
Reqs == 1..MaxReqs
None == "None"

\* The tasks of the event loop that await a pass: the polling task and the
\* sync_now handlers; Orphan owns a pass whose task was cancelled.
Task(kind, n) == [kind |-> kind, n |-> n]
PollTask == Task("poll", 0)
ReqTask(r) == Task("sync_now", r)
Orphan == Task("orphan", 0)
NoTask == Task("none", 0)

\* ---- strings ----------------------------------------------------------------
\* A decimal string "whole.frac" is [num |-> TRUE, whole, frac], frac being its
\* digits after the point ("0" has none); a string float() rejects has num FALSE.
Str(w, f) == [num |-> TRUE, whole |-> w, frac |-> f]
NotANumber == [num |-> FALSE, whole |-> 0, frac |-> <<>>]

RECURSIVE Pow10(_)
Pow10(n) == IF n = 0 THEN 1 ELSE 10 * Pow10(n - 1)

\* The number the first n digits of ds write.
RECURSIVE DigitsPrefixValue(_, _)
DigitsPrefixValue(ds, n) ==
    IF n = 0 THEN 0 ELSE 10 * DigitsPrefixValue(ds, n - 1) + ds[n]

DigitsValue(ds) == DigitsPrefixValue(ds, Len(ds))

\* float(s) for a string of at most FracDigits decimals, in units of
\* 10^-FracDigits (exact for the magnitudes of the model).
ParseFloat(s) ==
    s.whole * Pow10(FracDigits) + DigitsValue(s.frac) * Pow10(FracDigits - Len(s.frac))

RECURSIVE DigitsOf(_, _)
DigitsOf(v, n) ==
    IF n = 0 THEN <<>> ELSE Append(DigitsOf(v \div 10, n - 1), v % 10)

\* Mutant: the marker is formatted without its fraction.
FormatTs_WholeOnly(x) == Str(x \div Pow10(FracDigits), <<>>)

\* f"{x:.6f}"
FormatTs(x) == Str(x \div Pow10(FracDigits), DigitsOf(x % Pow10(FracDigits), FracDigits))

\* ---- messages ---------------------------------------------------------------
\* A text is a sequence of tokens: " " is a blank, "\n" a line break, "/codex"
\* the command prefix, "x" any other character.
CommandPrefix == "/codex"

WhiteSpace == {" ", "\n"}

RECURSIVE LStrip(_)
LStrip(t) == IF t # <<>> /\ t[1] \in WhiteSpace THEN LStrip(Tail(t)) ELSE t

RECURSIVE RStrip(_)
RStrip(t) ==
    IF t # <<>> /\ t[Len(t)] \in WhiteSpace THEN RStrip(SubSeq(t, 1, Len(t) - 1)) ELSE t

\* str.strip()
Strip(t) == RStrip(LStrip(t))

\* text.startswith("/codex")
StartsWithPrefix(t) == t # <<>> /\ t[1] = CommandPrefix

\* str.splitlines(): the lines of a text, "\n" being the line break.
RECURSIVE SplitLines(_)
SplitLines(t) ==
    IF t = <<>> THEN <<>>
    ELSE IF \E k \in 1..Len(t) : t[k] = "\n"
    THEN LET k == CHOOSE i \in 1..Len(t) : t[i] = "\n" /\ \A h \in 1..(i - 1) : t[h] # "\n"
         IN  <<SubSeq(t, 1, k - 1)>> \o SplitLines(SubSeq(t, k + 1, Len(t)))
    ELSE <<t>>

\* The characters a token stands for.
CharLen(tok) == IF tok = CommandPrefix THEN 6 ELSE 1

\* s[:n] for a text whose tokens the cut does not split.
RECURSIVE TakeChars(_, _)
TakeChars(t, n) ==
    IF t = <<>> \/ CharLen(t[1]) > n THEN <<>>
    ELSE <<t[1]>> \o TakeChars(Tail(t), n - CharLen(t[1]))

\* "Slack Codex Request"
FallbackTitle == <<"Slack Codex Request">>

\* What a call of _format_issue came to: not called, raised, or returned a
\* draft (of which the title is kept).
NoDraft == [status |-> "none", title |-> <<>>]
RaisedInFormat == [status |-> "raised", title |-> <<>>]
Draft(title) == [status |-> "returned", title |-> title]

\* _format_issue, lines 75 and 81: [0] of an empty list raises IndexError.
FormatIssue(m) ==
    LET text == Strip(m.text)
        lines == SplitLines(text)
    IN  IF lines = <<>> THEN RaisedInFormat
        ELSE IF TakeChars(lines[1], TitleLimit) = <<>> THEN Draft(FallbackTitle)
        ELSE Draft(TakeChars(lines[1], TitleLimit))

\* The messages users and bots post: a command, a command behind white space,
\* a text that only mentions the prefix, and a bot's command-like message.
MessageKinds ==
    { [text |-> <<" ", "/codex", "x">>, subtype |-> None],
      [text |-> <<"x", "/codex">>, subtype |-> None],
      [text |-> <<"/codex", "x">>, subtype |-> "bot_message"] }

\* The marker the backend gives the n-th message: 1.000000, 1.500000, 2.000000 ...
SlackTs(n) ==
    Str((n + 1) \div 2, <<IF n % 2 = 0 THEN 5 ELSE 0>> \o [k \in 1..(FracDigits - 1) |-> 0])

\* Mutant: the subtype test of line 114 is missing.
Qualifies_IgnoresSubtype(m) == StartsWithPrefix(Strip(m.text))

\* message.get("subtype") is falsy and the trimmed text starts with the prefix
Qualifies(m) == m.subtype = None /\ StartsWithPrefix(Strip(m.text))

\* ---- the cursor file --------------------------------------------------------
\* No file; a file json.loads rejects (empty or cut short); a JSON object, which
\* is [has_last_ts, last_ts]: whether it has the key "last_ts", and its value.
Dict(s) == [has_last_ts |-> TRUE, last_ts |-> s]
\* The JSON object {}.
EmptyDict == [has_last_ts |-> FALSE, last_ts |-> NotANumber]
FileAbsent == [kind |-> "absent", state |-> Dict(NotANumber)]
FileGarbage == [kind |-> "garbage", state |-> Dict(NotANumber)]
FileObject(d) == [kind |-> "object", state |-> d]

\* _load_state: [ok |-> FALSE] is the exception of json.loads.
LoadState(file) ==
    IF file.kind = "absent" THEN [ok |-> TRUE, state |-> Dict(Str(0, <<>>))]
    ELSE IF file.kind = "garbage" THEN [ok |-> FALSE, state |-> Dict(NotANumber)]
    ELSE [ok |-> TRUE, state |-> file.state]

\* state.get("last_ts", "0")
GetLastTs(state) == IF state.has_last_ts THEN state.last_ts ELSE Str(0, <<>>)

\* _save_state: the file after a completed write_text.
SaveState(state) == FileObject(state)

\* ---- one execution of run_sync ----------------------------------------------
\* pc: "idle" (not running), "load", "fetch", "loop", "save", then "ok" (returned
\* its statistics) or "err" (raised; err names the call that raised).  owner is
\* the task awaiting the worker thread, or "orphan" once that task is gone.
\* messages holds the fetched message objects as their positions in channel.
\* made, wrote and asked are history: the messages this execution has created
\* issues for, whether it has completed a write of the cursor file, and whether
\* it has sent a conversations.history request.
IdlePass ==
    [pc |-> "idle", owner |-> NoTask, oldest |-> NotANumber, messages |-> <<>>,
     cursor |-> 0, i |-> 0, processed_ts |-> 0, created |-> 0, err |-> None,
     made |-> {}, wrote |-> FALSE, asked |-> FALSE]

Ts(j) == ParseFloat(channel[j].ts)

\* Mutant: a sort that puts a message before the earlier ones of equal marker.
RECURSIVE Insert_Unstable(_, _)
Insert_Unstable(sorted, j) ==
    IF sorted = <<>> THEN <<j>>
    ELSE IF Ts(sorted[Len(sorted)]) < Ts(j) THEN Append(sorted, j)
    ELSE Append(Insert_Unstable(SubSeq(sorted, 1, Len(sorted) - 1), j), sorted[Len(sorted)])

\* list.sort(key=float(ts)): a stable insertion sort.
RECURSIVE Insert(_, _)
Insert(sorted, j) ==
    IF sorted = <<>> THEN <<j>>
    ELSE IF Ts(sorted[Len(sorted)]) <= Ts(j) THEN Append(sorted, j)
    ELSE Append(Insert(SubSeq(sorted, 1, Len(sorted) - 1), j), sorted[Len(sorted)])

RECURSIVE SortByTs(_)
SortByTs(ms) ==
    IF ms = <<>> THEN <<>>
    ELSE Insert(SortByTs(SubSeq(ms, 1, Len(ms) - 1)), ms[Len(ms)])

RECURSIVE FilterNewer(_, _)
FilterNewer(ms, oldest) ==
    IF ms = <<>> THEN <<>>
    ELSE IF Ts(ms[1]) > ParseFloat(oldest) THEN <<ms[1]>> \o FilterNewer(Tail(ms), oldest)
    ELSE FilterNewer(Tail(ms), oldest)

\* Mutant: the filter of line 71 is missing.
SortedNewer_Unfiltered(ms, oldest) == SortByTs(ms)

\* Lines 70-71 of _fetch_new_messages.
SortedNewer(ms, oldest) == FilterNewer(SortByTs(ms), oldest)

Min(a, b) == IF a < b THEN a ELSE b
Max(a, b) == IF a > b THEN a ELSE b

\* The chat backend's answer to one conversations.history request: the messages
\* newer than oldest (or not older, when it treats the bound as inclusive),
\* newest first, continuing below the continuation token; it may return fewer
\* than limit.  next is the continuation token, 0 for none.
Lowest(oldest, inclusive) ==
    LET newer == {j \in 1..Len(channel) :
                    IF inclusive THEN Ts(j) >= ParseFloat(oldest)
                    ELSE Ts(j) > ParseFloat(oldest)}
    IN  IF newer = {} THEN Len(channel) + 1
        ELSE CHOOSE j \in newer : \A k \in newer : j <= k

HistoryPage(top, lo, n) ==
    [messages |-> [k \in 1..n |-> top - k + 1],
     next |-> IF top - n >= lo THEN top - n ELSE 0]

\* ---- run_sync, step by step -------------------------------------------------
EventLoopVars ==
    <<locked, waiters, woken, pollPc, req, started, lastStats, lastError,
      lastRunEpoch, lifespan>>

\* The step sends no response to a sync_now request.
NoResponse == resp' = 0

\* The history variable aborted after a step of the p-th execution.
AbortedAfter(p) ==
    IF pass'[p].pc = "err" /\ pass'[p].err = "create" THEN pass'[p].made
    ELSE IF pass'[p].pc \in {"ok", "err"} THEN {}
    ELSE aborted

\* Mutant: the cursor is saved whether or not an issue was created.
AfterLoop_AlwaysSaves(rec) ==
    IF rec.i > Len(rec.messages) THEN [rec EXCEPT !.pc = "save"] ELSE rec

\* Leaving the for loop: "if created:" goes on to save, otherwise run_sync
\* returns its statistics.
AfterLoop(rec) ==
    IF rec.i > Len(rec.messages)
    THEN [rec EXCEPT !.pc = IF rec.created > 0 THEN "save" ELSE "ok"]
    ELSE rec

Raised(rec, what) == [rec EXCEPT !.pc = "err", !.err = what]

\* SlackSyncStats(...) of the return statement.
StatsOf(rec) ==
    [processed_messages |-> Len(rec.messages),
     created_issues |-> rec.created,
     last_timestamp |-> rec.processed_ts]

\* Lines 106-107: load the cursor; json.loads may raise.
LoadStep(p) ==
    /\ pass[p].pc = "load"
    /\ LET r == LoadState(stateFile)
       IN  pass' = [pass EXCEPT ![p] =
                IF r.ok THEN [@ EXCEPT !.pc = "fetch", !.oldest = GetLastTs(r.state)]
                ELSE Raised(@, "load")]
    /\ UNCHANGED <<channel, issues, stateFile>>
    /\ aborted' = AbortedAfter(p)
    /\ UNCHANGED EventLoopVars
    /\ NoResponse
    /\ UNCHANGED draft

\* Lines 110-111 after the fetch returned ms.
EnterLoop(rec, ms) ==
    AfterLoop([rec EXCEPT !.pc = "loop", !.messages = ms, !.cursor = 0, !.i = 1,
                          !.processed_ts = ParseFloat(rec.oldest), !.created = 0])

\* One turn of the while loop of _fetch_new_messages: a page request that
\* succeeds; after the last page, the sort and the filter.  float(oldest), at
\* line 71 or else at line 110, raises ValueError when oldest is no number.
FetchPage(p) ==
    /\ pass[p].pc = "fetch"
    /\ \E inclusive \in BOOLEAN :
       \E lo \in {Lowest(pass[p].oldest, inclusive)} :
         LET rec == pass[p]
             top == IF rec.cursor = 0 THEN Len(channel) ELSE rec.cursor
             avail == top - lo + 1
         IN  \E n \in (IF avail <= 0 THEN {0} ELSE 1..Min(PageLimit, avail)) :
             \E page \in {HistoryPage(top, lo, n)} :
             \E ms \in {rec.messages \o page.messages} :
             \E newer \in {IF page.next = 0 /\ rec.oldest.num
                           THEN SortedNewer(ms, rec.oldest) ELSE <<>>} :
               pass' = [pass EXCEPT ![p] =
                   IF page.next # 0
                   THEN [@ EXCEPT !.messages = ms, !.cursor = page.next,
                                  !.asked = TRUE]
                   ELSE IF ~rec.oldest.num
                   THEN Raised([@ EXCEPT !.messages = ms, !.asked = TRUE], "float")
                   ELSE EnterLoop([@ EXCEPT !.asked = TRUE],
                                  newer)]
    /\ UNCHANGED <<channel, issues, stateFile>>
    /\ aborted' = AbortedAfter(p)
    /\ UNCHANGED EventLoopVars
    /\ NoResponse
    /\ UNCHANGED draft

\* Mutant: a failed page request ends the pagination and the pages fetched so
\* far are used.
FetchFail_KeepsPartial(p) ==
    /\ pass[p].pc = "fetch"
    /\ pass' = [pass EXCEPT ![p] =
           EnterLoop([@ EXCEPT !.err = "fetch"], SortedNewer(@.messages, @.oldest))]
    /\ UNCHANGED <<channel, issues, stateFile>>
    /\ aborted' = AbortedAfter(p)
    /\ UNCHANGED EventLoopVars
    /\ NoResponse
    /\ UNCHANGED draft

\* _slack_request raises: urlopen fails, or the envelope is not ok.
FetchFail(p) ==
    /\ pass[p].pc = "fetch"
    /\ pass' = [pass EXCEPT ![p] = Raised([@ EXCEPT !.asked = TRUE], "fetch")]
    /\ UNCHANGED <<channel, issues, stateFile>>
    /\ aborted' = AbortedAfter(p)
    /\ UNCHANGED EventLoopVars
    /\ NoResponse
    /\ UNCHANGED draft

\* max(processed_ts, float(message.get("ts", processed_ts)))
Advanced(processed_ts, ts) == Max(processed_ts, ts)

\* Mutant: the cursor is saved after every issue instead of after the loop.
ProcessMessage_SavesEach(p) ==
    /\ pass[p].pc = "loop"
    /\ LET rec == pass[p]
           j == rec.messages[rec.i]
       IN  IF Qualifies(channel[j])
           THEN /\ issues' = [issues EXCEPT ![j] = @ + 1]
                /\ stateFile' = SaveState(Dict(FormatTs(Advanced(rec.processed_ts, Ts(j)))))
                /\ pass' = [pass EXCEPT ![p] =
                       AfterLoop([@ EXCEPT !.i = @ + 1, !.created = @ + 1,
                                           !.processed_ts = Advanced(@, Ts(j)),
                                           !.made = @ \cup {j}])]
           ELSE /\ issues' = issues
                /\ stateFile' = stateFile
                /\ pass' = [pass EXCEPT ![p] = AfterLoop([@ EXCEPT !.i = @ + 1])]
    /\ UNCHANGED channel
    /\ aborted' = AbortedAfter(p)
    /\ UNCHANGED EventLoopVars
    /\ NoResponse
    /\ UNCHANGED draft

\* One turn of the for loop of run_sync with _create_issue succeeding.
ProcessMessage(p) ==
    /\ pass[p].pc = "loop"
    /\ LET rec == pass[p]
           j == rec.messages[rec.i]
       IN  IF Qualifies(channel[j])
           THEN /\ issues' = [issues EXCEPT ![j] = @ + 1]
                /\ pass' = [pass EXCEPT ![p] =
                       AfterLoop([@ EXCEPT !.i = @ + 1, !.created = @ + 1,
                                           !.processed_ts = Advanced(@, Ts(j)),
                                           !.made = @ \cup {j}])]
           ELSE /\ issues' = issues
                /\ pass' = [pass EXCEPT ![p] = AfterLoop([@ EXCEPT !.i = @ + 1])]
    /\ UNCHANGED <<channel, stateFile>>
    /\ aborted' = AbortedAfter(p)
    /\ UNCHANGED EventLoopVars
    /\ NoResponse
    /\ UNCHANGED draft

\* Mutant: a failure of _create_issue is swallowed and the loop goes on.
CreateIssueFail_Continues(p) ==
    /\ pass[p].pc = "loop"
    /\ Qualifies(channel[pass[p].messages[pass[p].i]])
    /\ pass' = [pass EXCEPT ![p] = AfterLoop([@ EXCEPT !.i = @ + 1])]
    /\ UNCHANGED <<channel, issues, stateFile>>
    /\ aborted' = AbortedAfter(p)
    /\ UNCHANGED EventLoopVars
    /\ NoResponse
    /\ UNCHANGED draft

\* _create_issue raises: urlopen fails, or the status is 300 or more.
CreateIssueFail(p) ==
    /\ pass[p].pc = "loop"
    /\ Qualifies(channel[pass[p].messages[pass[p].i]])
    /\ pass' = [pass EXCEPT ![p] = Raised(@, "create")]
    /\ UNCHANGED <<channel, issues, stateFile>>
    /\ aborted' = AbortedAfter(p)
    /\ UNCHANGED EventLoopVars
    /\ NoResponse
    /\ UNCHANGED draft

\* Lines 124-125: _save_state writes the advanced marker.
SaveStep(p) ==
    /\ pass[p].pc = "save"
    /\ stateFile' = SaveState(Dict(FormatTs(pass[p].processed_ts)))
    /\ pass' = [pass EXCEPT ![p].pc = "ok", ![p].wrote = TRUE]
    /\ UNCHANGED <<channel, issues>>
    /\ aborted' = AbortedAfter(p)
    /\ UNCHANGED EventLoopVars
    /\ NoResponse
    /\ UNCHANGED draft

\* _save_state raises: mkdir or open fails (the file is as it was), or the write
\* fails after open truncated the file.
SaveFail(p) ==
    /\ pass[p].pc = "save"
    /\ stateFile' \in {stateFile, FileGarbage}
    /\ pass' = [pass EXCEPT ![p] = Raised(@, "save")]
    /\ UNCHANGED <<channel, issues>>
    /\ aborted' = AbortedAfter(p)
    /\ UNCHANGED EventLoopVars
    /\ NoResponse
    /\ UNCHANGED draft

\* ---- the event loop: app/main.py ---------------------------------------------
Some(x) == <<x>>
Nothing == <<>>

IdleReq == [pc |-> "idle", waited |-> FALSE]

PassVars == <<channel, issues, stateFile, aborted, draft>>

\* Every task that asks for the lock goes on to start one execution of
\* run_sync; this keeps the executions within MaxPasses.
CanReserve == started + Len(waiters) < MaxPasses

\* Mutant: the lock is taken without looking at whether it is held.
LockFree_IgnoresLock == waiters = <<>>

\* The fast path of asyncio.Lock.acquire: the lock is free and no waiter is
\* queued (a waiter already woken by release still counts).
LockFree == ~locked /\ waiters = <<>>

\* asyncio.to_thread(run_sync, _settings) called by the task owner.
StartedPass(owner) == [pass EXCEPT ![started + 1] = [IdlePass EXCEPT !.pc = "load", !.owner = owner]]

PassOf(owner) == CHOOSE p \in Passes : pass[p].owner = owner

Finished(p) == pass[p].pc \in {"ok", "err"}

\* time.time() read when the p-th execution of run_sync has ended: the clock
\* only moves forward, so the readings are ordered as the executions are.
Epoch(p) == p

\* Mutant: a successful pass leaves _last_error as it was.
RecordOutcome_KeepsError(p) ==
    /\ lastRunEpoch' = Some(Epoch(p))
    /\ IF pass[p].pc = "ok"
       THEN lastStats' = Some(StatsOf(pass[p])) /\ lastError' = lastError
       ELSE lastStats' = lastStats /\ lastError' = pass[p].err

\* _sync_once after run_sync returned or raised: the three globals.
RecordOutcome(p) ==
    /\ lastRunEpoch' = Some(Epoch(p))
    /\ IF pass[p].pc = "ok"
       THEN lastStats' = Some(StatsOf(pass[p])) /\ lastError' = None
       ELSE lastStats' = lastStats /\ lastError' = pass[p].err

\* asyncio.Lock.release: unlock and give the first waiter its result.
Release ==
    /\ locked' = FALSE
    /\ woken' = (waiters # <<>>)
    /\ waiters' = waiters

\* The server that hosts the application follows the ASGI lifespan protocol: it
\* sends startup once, before it serves any request, and shutdown once, after
\* it has stopped accepting connections and every request has been answered.
Serving == lifespan = "serving"
NoRequestInFlight == \A r \in Reqs : req[r].pc = "idle"

\* on_startup: create the polling task unless one is still running.
on_startup ==
    /\ lifespan = "startup"
    /\ lifespan' = "serving"
    /\ pollPc \in {"none", "done"}
    /\ pollPc' = "ready"
    /\ UNCHANGED <<locked, waiters, woken, req, pass, started, lastStats, lastError,
                   lastRunEpoch>>
    /\ NoResponse
    /\ UNCHANGED PassVars

\* Mutant: a tick that finds the lock taken is skipped.
PollTick_Skips ==
    /\ pollPc \in {"ready", "sleep"}
    /\ CanReserve
    /\ IF LockFree
       THEN /\ locked' = TRUE
            /\ pass' = StartedPass(PollTask)
            /\ started' = started + 1
            /\ pollPc' = "run"
       ELSE /\ pollPc' = "sleep"
            /\ UNCHANGED <<locked, pass, started>>
    /\ UNCHANGED <<waiters, woken, req, lastStats, lastError, lastRunEpoch>>
    /\ UNCHANGED lifespan
    /\ NoResponse
    /\ UNCHANGED PassVars

\* _poll_loop at "async with _loop_lock" (first turn, or asyncio.sleep over):
\* take the lock and start a pass, or queue on the lock.
PollTick ==
    /\ pollPc \in {"ready", "sleep"}
    /\ CanReserve
    /\ IF LockFree
       THEN /\ locked' = TRUE
            /\ pass' = StartedPass(PollTask)
            /\ started' = started + 1
            /\ pollPc' = "run"
            /\ UNCHANGED waiters
       ELSE /\ waiters' = Append(waiters, PollTask)
            /\ pollPc' = "wait"
            /\ UNCHANGED <<locked, pass, started>>
    /\ UNCHANGED <<woken, req, lastStats, lastError, lastRunEpoch>>
    /\ UNCHANGED lifespan
    /\ NoResponse
    /\ UNCHANGED PassVars

\* _poll_loop resumes in acquire with the lock handed to it, and starts a pass.
PollGranted ==
    /\ pollPc = "wait"
    /\ woken /\ waiters[1] = PollTask
    /\ waiters' = Tail(waiters)
    /\ woken' = FALSE
    /\ locked' = TRUE
    /\ pass' = StartedPass(PollTask)
    /\ started' = started + 1
    /\ pollPc' = "run"
    /\ UNCHANGED <<req, lastStats, lastError, lastRunEpoch>>
    /\ UNCHANGED lifespan
    /\ NoResponse
    /\ UNCHANGED PassVars

\* Mutant: the exception of a failed pass leaves _poll_loop, and the task ends.
PollPassDone_Reraises ==
    /\ pollPc = "run"
    /\ LET p == PassOf(PollTask)
       IN  /\ Finished(p)
           /\ RecordOutcome(p)
           /\ pollPc' = IF pass[p].pc = "err" THEN "done" ELSE "sleep"
           /\ pass' = [pass EXCEPT ![p] = IdlePass]
    /\ Release
    /\ UNCHANGED <<req, started>>
    /\ UNCHANGED lifespan
    /\ NoResponse
    /\ UNCHANGED PassVars

\* _poll_loop resumes after its pass: _sync_once records the outcome, the lock
\* is released, an exception is swallowed, and the loop sleeps.
PollPassDone ==
    /\ pollPc = "run"
    /\ LET p == PassOf(PollTask)
       IN  /\ Finished(p)
           /\ RecordOutcome(p)
           /\ pass' = [pass EXCEPT ![p] = IdlePass]
    /\ Release
    /\ pollPc' = "sleep"
    /\ UNCHANGED <<req, started>>
    /\ UNCHANGED lifespan
    /\ NoResponse
    /\ UNCHANGED PassVars

\* Mutant: sync_now without its busy check.
LockedCheck_Never == FALSE

\* _loop_lock.locked() at the top of sync_now.
LockedCheck == locked

\* sync_now, lines 89-90: the lock is held, HTTP 423.
SyncNowBusy ==
    /\ Serving
    /\ LockedCheck
    /\ resp' = 423
    /\ UNCHANGED <<locked, waiters, woken, pollPc, req, pass, started, lastStats,
                   lastError, lastRunEpoch>>
    /\ UNCHANGED lifespan
    /\ UNCHANGED PassVars

FreeReq == CHOOSE r \in Reqs : req[r].pc = "idle" /\ \A q \in Reqs : req[q].pc = "idle" => r <= q

\* sync_now, lines 89-93 with the lock not held: "async with _loop_lock" takes
\* the lock and starts a pass, or queues behind the waiters of the lock.
SyncNowStart ==
    /\ Serving
    /\ ~LockedCheck
    /\ \E r \in Reqs : req[r].pc = "idle"
    /\ CanReserve
    /\ IF LockFree
       THEN /\ locked' = TRUE
            /\ pass' = StartedPass(ReqTask(FreeReq))
            /\ started' = started + 1
            /\ req' = [req EXCEPT ![FreeReq] = [pc |-> "run", waited |-> FALSE]]
            /\ UNCHANGED waiters
       ELSE /\ waiters' = Append(waiters, ReqTask(FreeReq))
            /\ req' = [req EXCEPT ![FreeReq] = [pc |-> "wait", waited |-> TRUE]]
            /\ UNCHANGED <<locked, pass, started>>
    /\ UNCHANGED <<woken, pollPc, lastStats, lastError, lastRunEpoch>>
    /\ UNCHANGED lifespan
    /\ NoResponse
    /\ UNCHANGED PassVars

\* sync_now resumes in acquire with the lock handed to it, and starts its pass.
SyncNowGranted(r) ==
    /\ req[r].pc = "wait"
    /\ woken /\ waiters[1] = ReqTask(r)
    /\ waiters' = Tail(waiters)
    /\ woken' = FALSE
    /\ locked' = TRUE
    /\ pass' = StartedPass(ReqTask(r))
    /\ started' = started + 1
    /\ req' = [req EXCEPT ![r].pc = "run"]
    /\ UNCHANGED <<pollPc, lastStats, lastError, lastRunEpoch>>
    /\ UNCHANGED lifespan
    /\ NoResponse
    /\ UNCHANGED PassVars

\* sync_now resumes after its pass: _sync_once records the outcome, the lock is
\* released, and the response is 200 with the statistics or 500.
SyncNowDone(r) ==
    /\ req[r].pc = "run"
    /\ LET p == PassOf(ReqTask(r))
       IN  /\ Finished(p)
           /\ RecordOutcome(p)
           /\ resp' = IF pass[p].pc = "ok" THEN 200 ELSE 500
           /\ pass' = [pass EXCEPT ![p] = IdlePass]
    /\ Release
    /\ req' = [req EXCEPT ![r] = IdleReq]
    /\ UNCHANGED <<pollPc, started>>
    /\ UNCHANGED lifespan
    /\ UNCHANGED PassVars

\* healthz, line 83: the status code of the response.
HealthzStatus == IF lastError = None THEN 200 ELSE 503

\* healthz, lines 77-82: the body of the response.
HealthzBody ==
    [last_run_epoch |-> lastRunEpoch, last_stats |-> lastStats, last_error |-> lastError]

\* healthz: reads the three globals and answers.
Healthz ==
    /\ Serving
    /\ resp' = HealthzStatus
    /\ UNCHANGED <<locked, waiters, woken, pollPc, req, pass, started, lastStats,
                   lastError, lastRunEpoch>>
    /\ UNCHANGED lifespan
    /\ UNCHANGED PassVars

RECURSIVE Without(_, _)
Without(q, t) ==
    IF q = <<>> THEN <<>>
    ELSE IF q[1] = t THEN Tail(q) ELSE <<q[1]>> \o Without(Tail(q), t)

\* on_shutdown: _polling_task.cancel(), then await it.  CancelledError is raised
\* in _poll_loop where it is suspended: in asyncio.sleep; in Lock.acquire (which
\* passes a wake-up it had received on to the next waiter); or in
\* asyncio.to_thread, where it leaves "async with" and releases the lock
\* without _sync_once recording anything, while the worker thread goes on
\* executing run_sync.
on_shutdown ==
    /\ Serving /\ NoRequestInFlight
    /\ lifespan' = "shutdown"
    /\ pollPc \in {"ready", "sleep", "wait", "run"}
    /\ pollPc' = "done"
    /\ IF pollPc = "wait"
       THEN /\ waiters' = Without(waiters, PollTask)
            /\ woken' = (woken /\ waiters' # <<>>)
            /\ UNCHANGED <<locked, pass>>
       ELSE IF pollPc = "run"
       THEN /\ pass' = [pass EXCEPT ![PassOf(PollTask)].owner = Orphan]
            /\ Release
       ELSE UNCHANGED <<locked, waiters, woken, pass>>
    /\ UNCHANGED <<req, started, lastStats, lastError, lastRunEpoch>>
    /\ NoResponse
    /\ UNCHANGED PassVars

\* The worker thread of a cancelled task ends; nobody takes its result.
OrphanEnd(p) ==
    /\ pass[p].owner = Orphan
    /\ Finished(p)
    /\ pass' = [pass EXCEPT ![p] = IdlePass]
    /\ UNCHANGED <<locked, waiters, woken, pollPc, req, started, lastStats,
                   lastError, lastRunEpoch>>
    /\ UNCHANGED lifespan
    /\ NoResponse
    /\ UNCHANGED PassVars

\* ---- the environment --------------------------------------------------------
\* Somebody posts a message to the channel.
PostMessage ==
    /\ Len(channel) < MaxMsgs
    /\ \E k \in MessageKinds :
         channel' = Append(channel, [ts |-> SlackTs(Len(channel) + 1),
                                     text |-> k.text, subtype |-> k.subtype])
    /\ issues' = Append(issues, 0)
    /\ UNCHANGED <<stateFile, pass>>
    /\ UNCHANGED aborted
    /\ UNCHANGED EventLoopVars
    /\ NoResponse
    /\ UNCHANGED draft

\* ---- the specification --------------------------------------------------------
Init ==
    /\ channel = <<>>
    /\ issues = <<>>
    /\ stateFile = FileAbsent
    /\ locked = FALSE
    /\ waiters = <<>>
    /\ woken = FALSE
    /\ pollPc = "none"
    /\ req = [r \in Reqs |-> IdleReq]
    /\ pass = [p \in Passes |-> IdlePass]
    /\ started = 0
    /\ lastStats = Nothing
    /\ lastError = None
    /\ lastRunEpoch = Nothing
    /\ resp = 0
    /\ lifespan = "startup"
    /\ aborted = {}
    /\ draft = NoDraft

RunSyncStep(p) ==
    \/ LoadStep(p)
    \/ FetchPage(p)
    \/ FetchFail(p)
    \/ ProcessMessage(p)
    \/ CreateIssueFail(p)
    \/ SaveStep(p)
    \/ SaveFail(p)

Next ==
    \/ on_startup
    \/ on_shutdown
    \/ PollTick
    \/ PollGranted
    \/ PollPassDone
    \/ SyncNowBusy
    \/ SyncNowStart
    \/ \E r \in Reqs : SyncNowGranted(r)
    \/ \E r \in Reqs : SyncNowDone(r)
    \/ \E p \in Passes : RunSyncStep(p)
    \/ \E p \in Passes : OrphanEnd(p)
    \/ Healthz
    \/ PostMessage

Spec == Init /\ [][Next]_vars

\* The service starts with whatever an earlier run or an operator left in the
\* cursor file: nothing, text that is no JSON, an object without "last_ts", an
\* object whose "last_ts" is no number, or a saved cursor.
StoredFiles ==
    {FileAbsent, FileGarbage, FileObject(EmptyDict), FileObject(Dict(NotANumber)),
     FileObject(Dict(FormatTs(ParseFloat(SlackTs(1)))))}

InitStored ==
    /\ stateFile \in StoredFiles
    /\ channel = <<>>
    /\ issues = <<>>
    /\ locked = FALSE
    /\ waiters = <<>>
    /\ woken = FALSE
    /\ pollPc = "none"
    /\ req = [r \in Reqs |-> IdleReq]
    /\ pass = [p \in Passes |-> IdlePass]
    /\ started = 0
    /\ lastStats = Nothing
    /\ lastError = None
    /\ lastRunEpoch = Nothing
    /\ resp = 0
    /\ lifespan = "startup"
    /\ aborted = {}
    /\ draft = NoDraft

SpecStored == InitStored /\ [][Next]_vars

\* Normal operation: no request to a backend fails, the cursor file can be
\* written, and the polling task is not cancelled.
RunSyncStepNormal(p) ==
    \/ LoadStep(p)
    \/ FetchPage(p)
    \/ ProcessMessage(p)
    \/ SaveStep(p)

NextNormal ==
    \/ on_startup
    \/ PollTick
    \/ PollGranted
    \/ PollPassDone
    \/ SyncNowBusy
    \/ SyncNowStart
    \/ \E r \in Reqs : SyncNowGranted(r)
    \/ \E r \in Reqs : SyncNowDone(r)
    \/ \E p \in Passes : RunSyncStepNormal(p)
    \/ Healthz
    \/ PostMessage

SpecNormal == Init /\ [][NextNormal]_vars

\* ---- what the properties speak of -------------------------------------------
\* run_sync is executing: called and not yet returned or raised.
Executing(p) == pass[p].pc \in {"load", "fetch", "loop", "save"}

\* A pass is in flight: started, and its end not yet taken up by its task.
InFlight(p) == pass[p].pc # "idle"

\* What the next load of the cursor file yields.
Loadable(file) == LoadState(file).ok
CursorOf(file) == GetLastTs(LoadState(file).state)

\* The claim's own words for a message that is no command: it carries a
\* subtype, or its trimmed text does not start with the command prefix.
NoCommand(m) ==
    \/ m.subtype # None
    \/ Strip(m.text) = <<>>
    \/ Strip(m.text)[1] # "/codex"

SetMax(S) == CHOOSE x \in S : \A y \in S : y <= x

Fetched(p) == {pass[p].messages[k] : k \in 1..Len(pass[p].messages)}

\* ---- C1 ---------------------------------------------------------------------
\* C1: under normal operation, whatever passes the timer and the manual trigger
\* start, no message ever has more than one issue, and when a pass has
\* completed, every message its fetch returned that has no subtype and whose
\* trimmed text starts with the command prefix has exactly one issue.
C1_ExactlyOnce ==
    /\ \A j \in 1..Len(channel) : issues[j] <= 1
    /\ \A p \in Passes : pass[p].pc = "ok" =>
         \A j \in Fetched(p) : ~NoCommand(channel[j]) => issues[j] = 1

\* A pass that started from an advanced cursor has completed with a command
\* among its messages, while an earlier message has its issue from an earlier pass.
C1_Witness ==
    \E p \in Passes :
      /\ pass[p].pc = "ok"
      /\ ParseFloat(pass[p].oldest) > 0
      /\ \E j \in Fetched(p) : ~NoCommand(channel[j]) /\ issues[j] = 1
      /\ \E j \in 1..Len(channel) : j \notin Fetched(p) /\ issues[j] = 1

\* ---- C2 ---------------------------------------------------------------------
\* C2: at most one execution of run_sync is under way at any instant, whatever
\* the interleaving of ticks, manual triggers, failures and shutdown.
C2_SingleFlight == Cardinality({p \in Passes : Executing(p)}) <= 1

\* A manual trigger's pass is executing, the periodic loop is queued on the
\* lock and another manual trigger has just been refused.
C2_Witness ==
    /\ \E p \in Passes : Executing(p) /\ pass[p].owner.kind = "sync_now"
    /\ pollPc = "wait"
    /\ resp = 423

\* ---- C3 ---------------------------------------------------------------------
\* C3: a sync_now invoked while a pass is in flight answers 423, starts no pass
\* (and queues for none), and leaves _last_stats, _last_error and
\* _last_run_epoch as they were.
C3_BusyRejected ==
    [][ ((SyncNowBusy \/ SyncNowStart) /\ \E p \in Passes : InFlight(p))
        => /\ resp' = 423
           /\ started' = started /\ pass' = pass
           /\ req' = req /\ waiters' = waiters /\ locked' = locked
           /\ lastStats' = lastStats /\ lastError' = lastError
           /\ lastRunEpoch' = lastRunEpoch ]_vars

\* A sync_now has just been refused while a pass was executing.
C3_Witness == resp = 423 /\ \E p \in Passes : Executing(p)

\* ---- C4 ---------------------------------------------------------------------
\* C4: sync_now never queues or waits for the lock: a handler that runs a pass
\* took the lock at once, without waiting for another pass to finish (and a
\* handler that could not was refused with 423).
C4_ManualNeverWaits == \A r \in Reqs : req[r].pc = "run" => ~req[r].waited

\* ---- C5 ---------------------------------------------------------------------
\* C5 as claimed: a tick of the periodic loop that finds the lock held is
\* skipped: the loop starts no pass, does not queue on the lock, and sleeps.
C5_TickSkipsWhenHeld ==
    [][ (PollTick /\ locked)
        => (pollPc' = "sleep" /\ waiters' = waiters /\ started' = started) ]_vars

\* C5 as amended: a tick of the periodic loop that finds the lock held (or
\* promised to a waiter) is not skipped: the loop queues on the lock and starts
\* nothing; it leaves the queue only to take the lock and start its pass, or
\* because it is cancelled; and it goes to sleep only after a pass of its own.
C5_TickWaitsForSlot ==
    [][ /\ (PollTick /\ ~LockFree)
           => /\ pollPc' = "wait"
              /\ waiters' = Append(waiters, PollTask)
              /\ started' = started /\ pass' = pass
        /\ (pollPc = "wait" /\ pollPc' # "wait")
           => \/ pollPc' = "done"
              \/ /\ pollPc' = "run"
                 /\ locked' /\ started' = started + 1
                 /\ pass'[started'].pc = "load" /\ pass'[started'].owner = PollTask
        /\ (pollPc # "sleep" /\ pollPc' = "sleep")
           => (pollPc = "run" /\ Finished(PassOf(PollTask))) ]_vars

\* The periodic loop is queued on the lock while a manual trigger's pass is
\* executing.
C5_Witness ==
    /\ pollPc = "wait"
    /\ locked
    /\ \E p \in Passes : Executing(p) /\ pass[p].owner.kind = "sync_now"

\* ---- C6 ---------------------------------------------------------------------
\* C6: the persisted cursor never decreases: no step replaces a readable cursor
\* by a smaller one (and a file that cannot be read never becomes readable
\* again), and when a pass has ended, whatever its outcome, the cursor in the
\* file is not below the cursor the pass loaded.
C6_CursorMonotone ==
    /\ [][ /\ (Loadable(stateFile) /\ Loadable(stateFile'))
              => ParseFloat(CursorOf(stateFile')) >= ParseFloat(CursorOf(stateFile))
           /\ Loadable(stateFile') => Loadable(stateFile) ]_vars
    /\ [](\A p \in Passes :
            (Finished(p) /\ pass[p].oldest.num /\ Loadable(stateFile))
            => ParseFloat(CursorOf(stateFile)) >= ParseFloat(pass[p].oldest))

\* A pass that loaded an already advanced cursor has saved a later one.
C6_Witness ==
    \E p \in Passes :
      /\ pass[p].pc = "ok" /\ pass[p].wrote
      /\ ParseFloat(pass[p].oldest) > 0
      /\ ParseFloat(CursorOf(stateFile)) > ParseFloat(pass[p].oldest)

\* ---- C7 ---------------------------------------------------------------------
\* C7: the cursor file changes only in the save at the end of a pass that
\* created at least one issue; a pass that completes with no issue created has
\* written nothing, and the file still holds the marker the pass loaded.
C7_SavedOnlyWithIssue ==
    /\ [][ stateFile' # stateFile
           => \E p \in Passes : /\ pass[p].pc = "save" /\ pass[p].created >= 1
                                /\ pass[p].i > Len(pass[p].messages)
                                /\ Finished(p)' ]_vars
    /\ [](\A p \in Passes :
            (pass[p].pc = "ok" /\ pass[p].created = 0)
            => (~pass[p].wrote /\ CursorOf(stateFile) = pass[p].oldest))

\* A pass has completed that fetched messages and created no issue.
C7_Witness ==
    \E p \in Passes :
      pass[p].pc = "ok" /\ pass[p].created = 0 /\ Len(pass[p].messages) > 0

\* ---- C8 ---------------------------------------------------------------------
\* C8: a message that carries a subtype or whose trimmed text does not start
\* with the command prefix never gets an issue, and the advanced marker of a
\* pass is the maximum of the cursor it loaded and the markers of the messages
\* it created issues for.
C8_SkippedNeverCount ==
    /\ \A j \in 1..Len(channel) : NoCommand(channel[j]) => issues[j] = 0
    /\ \A p \in Passes : pass[p].pc \in {"loop", "save", "ok"} =>
         /\ \A j \in pass[p].made : ~NoCommand(channel[j])
         /\ pass[p].processed_ts =
              SetMax({ParseFloat(pass[p].oldest)} \cup {Ts(j) : j \in pass[p].made})

\* A pass has completed that created an issue and skipped a later message:
\* its advanced marker stays below that message's marker.
C8_Witness ==
    \E p \in Passes :
      /\ pass[p].pc = "ok" /\ pass[p].made # {}
      /\ \E j \in Fetched(p) : NoCommand(channel[j]) /\ Ts(j) > pass[p].processed_ts

\* ---- C9 ---------------------------------------------------------------------
\* C9: when _create_issue raises partway through a batch, the pass has ended
\* with the cursor file still at the marker it loaded although the earlier
\* commands of the batch have their issues; the next pass fetches those
\* messages again and, once through its batch, has created a second issue
\* for each of them.
C9_AtLeastOnce ==
    /\ \A p \in Passes : (pass[p].pc = "err" /\ pass[p].err = "create") =>
         /\ ~pass[p].wrote
         /\ Loadable(stateFile) /\ CursorOf(stateFile) = pass[p].oldest
         /\ aborted = pass[p].made
         /\ \A j \in pass[p].made : issues[j] >= 1 /\ Ts(j) > ParseFloat(CursorOf(stateFile))
    /\ \A p \in Passes :
         /\ pass[p].pc \in {"loop", "save"} => aborted \subseteq Fetched(p)
         /\ pass[p].pc = "save" => \A j \in aborted : j \in pass[p].made /\ issues[j] >= 2

\* The pass after an aborted one is through its batch and has created the
\* duplicate of an issue of the aborted pass.
C9_Witness ==
    \E p \in Passes :
      pass[p].pc = "save" /\ aborted # {} /\ \A j \in aborted : issues[j] = 2

\* ---- C10 --------------------------------------------------------------------
\* C10: when a page request of the fetch has failed, the pass has ended in
\* error with nothing of the pages already fetched used: it has created no
\* issue and has not written the cursor file, which holds the marker it loaded.
C10_FetchAllOrNothing ==
    \A p \in Passes : pass[p].err = "fetch" =>
      /\ pass[p].pc = "err"
      /\ pass[p].made = {} /\ pass[p].created = 0
      /\ ~pass[p].wrote
      /\ Loadable(stateFile) /\ CursorOf(stateFile) = pass[p].oldest

\* A page request failed after an earlier page had brought a command, and the
\* command has no issue.
C10_Witness ==
    \E p \in Passes :
      /\ pass[p].err = "fetch"
      /\ \E k \in 1..Len(pass[p].messages) :
           ~NoCommand(channel[pass[p].messages[k]]) /\ issues[pass[p].messages[k]] = 0

\* The event loop runs a task that is ready (and a sleep ends), and a call
\* run_sync makes to a backend or to the file system returns or raises.
EventLoopStep ==
    \/ PollTick
    \/ PollGranted
    \/ PollPassDone
    \/ \E r \in Reqs : SyncNowGranted(r)
    \/ \E r \in Reqs : SyncNowDone(r)

WorkerStep == \E p \in Passes : RunSyncStep(p)

Fairness == WF_vars(EventLoopStep) /\ WF_vars(WorkerStep)

SpecFair == Spec /\ Fairness

\* ---- _fetch_new_messages against a backend of any behaviour ---------------------
\* The backend holds MaxFetched messages whose markers are any of the first
\* MaxFetched markers 1.000000, 1.500000, ... (equal markers included), and a
\* pass is about to fetch with a cursor of 0, 1.000000 or 1.500000.
AnyBackendChannels ==
    [1..MaxFetched -> {[ts |-> SlackTs(n), text |-> <<"/codex", "x">>, subtype |-> None]
                         : n \in 1..MaxFetched}]

InitFetch ==
    /\ channel \in AnyBackendChannels
    /\ issues = [j \in 1..MaxFetched |-> 0]
    /\ stateFile = FileAbsent
    /\ locked = TRUE
    /\ waiters = <<>>
    /\ woken = FALSE
    /\ pollPc = "run"
    /\ req = [r \in Reqs |-> IdleReq]
    /\ \E oldest \in {Str(0, <<>>), SlackTs(1), SlackTs(2)} :
         pass = [p \in Passes |->
                   IF p = 1 THEN [IdlePass EXCEPT !.pc = "fetch", !.owner = PollTask,
                                                  !.oldest = oldest]
                   ELSE IdlePass]
    /\ started = 1
    /\ lastStats = Nothing
    /\ lastError = None
    /\ lastRunEpoch = Nothing
    /\ resp = 0
    /\ lifespan = "serving"
    /\ aborted = {}
    /\ draft = NoDraft

\* Lines 65-69: a page that is not the last; the backend returns any of its
\* messages in any order, whatever the cursor.
FetchAnyPage(p) ==
    /\ pass[p].pc = "fetch"
    /\ Len(pass[p].messages) < MaxFetched
    /\ \E j \in 1..Len(channel) :
         pass' = [pass EXCEPT ![p].messages = Append(@, j), ![p].asked = TRUE]
    /\ UNCHANGED <<channel, issues, stateFile, aborted>>
    /\ UNCHANGED EventLoopVars
    /\ NoResponse
    /\ UNCHANGED draft

\* Lines 65-71: the last page is empty; the sort and the filter.
FetchReturn(p) ==
    /\ pass[p].pc = "fetch"
    /\ \E newer \in {SortedNewer(pass[p].messages, pass[p].oldest)} :
         pass' = [pass EXCEPT ![p] = EnterLoop([@ EXCEPT !.asked = TRUE], newer)]
    /\ UNCHANGED <<channel, issues, stateFile, aborted>>
    /\ UNCHANGED EventLoopVars
    /\ NoResponse
    /\ UNCHANGED draft

NextFetch ==
    \/ \E p \in Passes : FetchAnyPage(p)
    \/ \E p \in Passes : FetchReturn(p)

SpecFetch == InitFetch /\ [][NextFetch]_vars

\* ---- _format_issue on any message ---------------------------------------------
\* The texts of at most MaxTextLen tokens, and two texts longer than a title.
RECURSIVE TextsOfLen(_)
TextsOfLen(n) ==
    IF n = 0 THEN {<<>>}
    ELSE {Append(t, tok) : t \in TextsOfLen(n - 1), tok \in {" ", "\n", "/codex", "x"}}

FormatTexts ==
    UNION {TextsOfLen(n) : n \in 0..MaxTextLen}
    \cup {[k \in 1..(TitleLimit + 5) |-> "x"],
          <<"/codex">> \o [k \in 1..TitleLimit |-> "x"] \o <<"\n", "x">>}

InitFormat ==
    /\ \E t \in FormatTexts :
         channel = <<[ts |-> SlackTs(1), text |-> t, subtype |-> None]>>
    /\ issues = <<0>>
    /\ stateFile = FileAbsent
    /\ locked = FALSE
    /\ waiters = <<>>
    /\ woken = FALSE
    /\ pollPc = "none"
    /\ req = [r \in Reqs |-> IdleReq]
    /\ pass = [p \in Passes |-> IdlePass]
    /\ started = 0
    /\ lastStats = Nothing
    /\ lastError = None
    /\ lastRunEpoch = Nothing
    /\ resp = 0
    /\ lifespan = "startup"
    /\ aborted = {}
    /\ draft = NoDraft

\* _format_issue(message, channel) is called.
FormatMessage ==
    /\ draft = NoDraft
    /\ draft' = FormatIssue(channel[1])
    /\ UNCHANGED <<channel, issues, stateFile, aborted, pass>>
    /\ UNCHANGED EventLoopVars
    /\ NoResponse

NextFormat == FormatMessage

SpecFormat == InitFormat /\ [][NextFormat]_vars

\* ---- the process is killed -----------------------------------------------------
\* The process dies and the service is started again: what the event loop and
\* the worker threads held is gone, the backends and the cursor file stay.  A
\* pass killed inside _save_state leaves the file as it was (before open), cut
\* short (open has truncated it, the text is not or not all written), or
\* written.
Crash ==
    /\ lifespan # "startup"
    /\ IF \E p \in Passes : pass[p].pc = "save"
       THEN LET p == CHOOSE q \in Passes : pass[q].pc = "save"
            IN  stateFile' \in {stateFile, FileGarbage,
                                SaveState(Dict(FormatTs(pass[p].processed_ts)))}
       ELSE stateFile' = stateFile
    /\ locked' = FALSE
    /\ waiters' = <<>>
    /\ woken' = FALSE
    /\ pollPc' = "none"
    /\ req' = [r \in Reqs |-> IdleReq]
    /\ pass' = [p \in Passes |-> IdlePass]
    /\ lastStats' = Nothing
    /\ lastError' = None
    /\ lastRunEpoch' = Nothing
    /\ lifespan' = "startup"
    /\ aborted' = {}
    /\ UNCHANGED <<channel, issues, started>>
    /\ NoResponse
    /\ UNCHANGED draft

NextCrash ==
    \/ Next
    \/ Crash

SpecCrash == Init /\ [][NextCrash]_vars

\* ---- C11 --------------------------------------------------------------------
\* A file content that yields a cursor: no file (the zero cursor), or an object
\* whose "last_ts" is a number.
Usable(file) ==
    \/ file.kind = "absent"
    \/ file.kind = "object" /\ file.state.has_last_ts /\ file.state.last_ts.num

\* C11: when the cursor file holds no usable cursor, the load of a pass ends
\* the pass in error; and a pass that has failed to load has sent no fetch
\* request, created no issue and not written the cursor file.
C11_CorruptStopsPass ==
    /\ [][ \A p \in Passes :
             (pass[p].pc = "load" /\ pass'[p].pc # "load" /\ ~Usable(stateFile))
             => (pass'[p].pc = "err" /\ pass'[p].err = "load") ]_vars
    /\ [](\A p \in Passes : pass[p].err = "load" =>
            pass[p].pc = "err" /\ ~pass[p].asked /\ pass[p].made = {} /\ ~pass[p].wrote)

\* ---- C12 --------------------------------------------------------------------
\* C12: when the process is killed while a pass is saving the cursor, the file
\* the next load reads holds the complete old cursor or the complete new one.
C12_SaveAtomic ==
    [][ \A p \in Passes :
          (pass[p].pc = "save" /\ lifespan # "startup" /\ lifespan' = "startup")
          => stateFile' \in {stateFile, SaveState(Dict(FormatTs(pass[p].processed_ts)))} ]_vars

\* ---- C13 --------------------------------------------------------------------
\* C13: when the pass of the periodic loop has ended, whatever its outcome, the
\* outcome is recorded (an error as the last error) and the loop goes to
\* sleep; the loop ends only by being cancelled; and, the event loop and the
\* backends being live, a loop that runs a pass comes to sleep and a sleeping
\* loop comes to attempt a later pass (as long as the model lets a pass start).
C13_LoopKeepsTicking ==
    /\ [][ (pollPc = "run" /\ pollPc' # "run" /\ lifespan' = lifespan)
           => /\ pollPc' = "sleep"
              /\ lastRunEpoch' = Some(Epoch(PassOf(PollTask)))
              /\ pass[PassOf(PollTask)].pc = "err"
                 => (lastError' = pass[PassOf(PollTask)].err /\ lastError' # None) ]_vars
    /\ [][ (pollPc # "done" /\ pollPc' = "done")
           => (lifespan = "serving" /\ lifespan' = "shutdown") ]_vars
    /\ (pollPc = "run") ~> (pollPc \in {"sleep", "done"})
    /\ (pollPc = "sleep" /\ CanReserve) ~> (pollPc \in {"run", "wait", "done"} \/ ~CanReserve)

\* The first pass was the loop's, it failed, and the loop sleeps.
C13_Witness ==
    /\ started = 1 /\ pollPc = "sleep"
    /\ lastError # None /\ lastRunEpoch = Some(Epoch(1))

\* ---- C14 --------------------------------------------------------------------
\* A pass completes in this step: its task takes up the outcome of run_sync.
Completes(p) ==
    /\ pass[p].owner.kind \in {"poll", "sync_now"}
    /\ Finished(p)
    /\ pass'[p].pc = "idle"

\* C14: healthz answers 200 before any pass has completed; the step that
\* completes a pass, periodic or manual, makes it answer 503 if the pass ended
\* in error and 200 if it succeeded; and no other step changes its answer.
C14_HealthFollowsLastPass ==
    /\ HealthzStatus = 200
    /\ [][ /\ \A p \in Passes : Completes(p) =>
                HealthzStatus' = (IF pass[p].pc = "err" THEN 503 ELSE 200)
           /\ (~\E p \in Passes : Completes(p)) => HealthzStatus' = HealthzStatus
           /\ Healthz => resp' = HealthzStatus ]_vars

\* healthz has answered 503: the second pass failed after the first succeeded.
C14_Witness ==
    /\ resp = 503
    /\ lastRunEpoch = Some(Epoch(2)) /\ lastStats # Nothing

\* ---- C15 --------------------------------------------------------------------
\* C15: the step that completes a pass replaces the statistics, the error and
\* the completion time together by those of that pass (a failed pass has no
\* statistics), so what healthz exposes is never the statistics of one pass
\* with the error or the completion time of another.
C15_OutcomeReplacedTogether ==
    [][ \A p \in Passes : Completes(p) =>
          /\ HealthzBody'.last_run_epoch = Some(Epoch(p))
          /\ HealthzBody'.last_error = (IF pass[p].pc = "err" THEN pass[p].err ELSE None)
          /\ HealthzBody'.last_stats =
               (IF pass[p].pc = "ok" THEN Some(StatsOf(pass[p])) ELSE Nothing) ]_vars

\* ---- C16 --------------------------------------------------------------------
\* C16: the periodic loop ends only while no pass of its own is in flight; and
\* as long as run_sync is executing the lock is held and a task is there to
\* record its outcome.
C16_CancelWaitsForPass ==
    /\ [][ (pollPc # "done" /\ pollPc' = "done")
           => ~\E p \in Passes : pass[p].owner = PollTask /\ InFlight(p) ]_vars
    /\ [](\A p \in Passes : Executing(p) => (locked /\ pass[p].owner # Orphan))

\* ---- C17 --------------------------------------------------------------------
\* The position of message j in the batch of pass p, and the last message of
\* the batch the pass created an issue for.
PosInBatch(p, j) == CHOOSE k \in 1..Len(pass[p].messages) : pass[p].messages[k] = j
LastMade(p) ==
    CHOOSE j \in pass[p].made : \A k \in pass[p].made : PosInBatch(p, k) <= PosInBatch(p, j)

\* Markers as the chat backend writes them, seconds with six decimals: the
\* smallest and largest fractions, whole seconds, and "1000.500000".
MarkerSamples ==
    {Str(0, <<0, 0, 0, 0, 0, 1>>), Str(0, <<9, 9, 9, 9, 9, 9>>),
     Str(1, <<0, 0, 0, 0, 0, 0>>), Str(1, <<0, 9, 0, 0, 0, 9>>),
     Str(1000, <<5, 0, 0, 0, 0, 0>>)}

C18_FetchSince ==
    [][ \A p \in Passes : (pass[p].pc = "fetch" /\ pass'[p].pc \in {"loop", "ok"}) =>
          LET got == pass[p].messages
              out == pass'[p].messages
              cur == ParseFloat(pass[p].oldest)
          IN  /\ \A k \in 1..Len(out) : Ts(out[k]) > cur
              /\ \A a \in 1..Len(out) : \A b \in 1..Len(out) :
                   a < b => Ts(out[a]) <= Ts(out[b])
              /\ \A v \in {Ts(j) : j \in 1..Len(channel)} :
                   v > cur => SelectSeq(out, LAMBDA j : Ts(j) = v)
                              = SelectSeq(got, LAMBDA j : Ts(j) = v) ]_vars

\* The fetch has returned, with a cursor above zero, a message followed by two
\* messages of a greater, equal marker, which stand in the order the backend
\* gave them and not in the order of the channel.
C18_Witness ==
    \E p \in Passes :
      /\ pass[p].pc = "loop" /\ ParseFloat(pass[p].oldest) > 0
      /\ Len(pass[p].messages) = 3
      /\ Ts(pass[p].messages[1]) < Ts(pass[p].messages[2])
      /\ Ts(pass[p].messages[2]) = Ts(pass[p].messages[3])
      /\ pass[p].messages[2] > pass[p].messages[3]

\* ---- C19 --------------------------------------------------------------------
\* C19: the formatter never fails: whatever the text of the message, it
\* returns a draft whose title is the first line of the trimmed text cut to
\* TitleLimit characters, or the fallback title when the trimmed text is empty.
C19_FormatNeverFails ==
    draft # NoDraft =>
      /\ draft.status = "returned"
      /\ LET text == Strip(channel[1].text)
         IN  draft.title = (IF text = <<>> THEN FallbackTitle
                            ELSE TakeChars(SplitLines(text)[1], TitleLimit))

\* ---- C20 --------------------------------------------------------------------
\* C20: in every state, every message at or before the persisted cursor that
\* has no subtype and starts with the command prefix has at least one issue;
\* in particular so has every such message that the pass which has just
\* persisted the cursor had fetched.
C20_CursorDecided ==
    /\ Loadable(stateFile) =>
         \A j \in 1..Len(channel) :
           (Ts(j) <= ParseFloat(CursorOf(stateFile)) /\ ~NoCommand(channel[j]))
           => issues[j] >= 1
    /\ \A p \in Passes : (pass[p].pc = "ok" /\ pass[p].wrote) =>
         \A j \in Fetched(p) :
           (Ts(j) <= ParseFloat(CursorOf(stateFile)) /\ ~NoCommand(channel[j]))
           => issues[j] >= 1

\* A pass has persisted a cursor past two fetched messages: one it skipped,
\* and a command, which has its issue.
C20_Witness ==
    \E p \in Passes :
      /\ pass[p].pc = "ok" /\ pass[p].wrote
      /\ \E j \in Fetched(p) : \E k \in Fetched(p) :
           /\ Ts(j) < Ts(k) /\ Ts(k) <= ParseFloat(CursorOf(stateFile))
           /\ NoCommand(channel[j]) /\ issues[j] = 0
           /\ ~NoCommand(channel[k]) /\ issues[k] >= 1

====
